---- MODULE Spec2Model ----
(***************************************************************************)
(* Chat client with a client-side user directory and per-owner session     *)
(* storage.  The repository holds two variants of the application:         *)
(*   "consolidated"  src/unnamed/part_000  one map owner id -> sessions     *)
(*                   kept in the user context (allUserSessions)            *)
(*   "peruser"       src/index.tsx         one in-memory list (sessions)    *)
(*                   saved under the key chatSessions_<owner id>           *)
(* A behaviour runs one variant; Init chooses it.  Every action is one     *)
(* event handler together with the effects React runs after it.            *)
(* Texts (titles, messages, usernames) are sequences of characters.        *)
(***************************************************************************)
EXTENDS Integers, Sequences, FiniteSets, TLC

VARIABLES
    variant,              \* which source file runs
    apiKey,               \* process.env.API_KEY is set
    currentUser,          \* UserProvider.currentUser
    registeredUsers,      \* UserProvider.registeredUsers
    allUserSessions,      \* consolidated: UserProvider.allUserSessions
    sessions,             \* peruser: App.sessions
    chatSessions,         \* peruser: localStorage chatSessions_<id>
    activeSessionId,      \* App.activeSessionId (NoSession = null)
    isLoading,            \* App.isLoading
    isApiKeyMissing,      \* consolidated: App.isApiKeyMissing
    chat,                 \* App.chat is not null
    chatHistory,          \* the history the instance in App.chat was created with
    showArchivedSessions, \* App.showArchivedSessions
    editingSessionId,     \* App.editingSessionId (NoSession = null)
    inflight,             \* completion requests awaiting their reply
    idClock,              \* next value of crypto.randomUUID() / Date.now()
    nextUserId,           \* next profile id of crypto.randomUUID()
    scheduled,            \* peruser: state updates queued by the load effect
    viewParam,            \* the view parameter as the address holds it
    publicSessionData,    \* App.publicSessionData
    malformed,            \* names of the state that holds a value of another shape
    crashed,              \* an exception escaped a render: the tree is unmounted
    clipboard,            \* the link copied from the share dialog and its data
    aiSettings,           \* App.aiSettings
    systemInstruction,    \* config.systemInstruction the instance in App.chat was created with
    renamed,              \* history: ids of the sessions renamed by hand
    lastEvent             \* the handler call that ran last

vars == <<variant, apiKey, currentUser, registeredUsers, allUserSessions,
          sessions, chatSessions, activeSessionId, isLoading, isApiKeyMissing,
          chat, chatHistory, showArchivedSessions, editingSessionId, inflight,
          idClock, nextUserId, scheduled, viewParam, publicSessionData,
          malformed, crashed, clipboard, aiSettings, systemInstruction,
          renamed, lastEvent>>

(***************************************************************************)
(* Bounds of the model                                                     *)
(***************************************************************************)
MaxSessionIds == 4     \* session ids handed out in one behaviour
MaxUsers == 2          \* profiles registered in one behaviour
MaxSends == 2          \* user messages held by the stores at one time

(***************************************************************************)
(* Program constants                                                       *)
(***************************************************************************)
GuestId == 0           \* DEFAULT_GUEST_USER_PROFILE.id ('guest')
NoSession == 0         \* activeSessionId / editingSessionId null
TitleLimit == 30       \* substring(0, 30)

NEW_CHAT_TITLE == <<"N","e","w"," ","C","h","a","t">>
UNTITLED_CHAT == <<"U","n","t","i","t","l","e","d"," ","C","h","a","t">>
DEFAULT_USERNAME == <<"U","s","e","r">>
GUEST_USERNAME == <<"G","u","e","s","t">>
ELLIPSIS == <<".",".",".">>
GREETING_TEXT == <<"H","e","l","l","o","!"," ","H","o","w"," ","c","a","n"," ","I"," ","h","e","l","p"," ","y","o","u"," ","t","o","d","a","y","?">>
FALLBACK_TEXT == <<"O","o","p","s","!"," ","S","o","m","e","t","h","i","n","g"," ","w","e","n","t"," ","w","r","o","n","g","."," ","P","l","e","a","s","e"," ","t","r","y"," ","a","g","a","i","n",".">>
API_KEY_MISSING_TEXT == <<"A","P","I"," ","K","e","y"," ","i","s"," ","m","i","s","s","i","n","g","."," ","P","l","e","a","s","e"," ","e","n","s","u","r","e"," ","i","t","'","s"," ","c","o","n","f","i","g","u","r","e","d"," ","c","o","r","r","e","c","t","l","y",".">>

PERSONA_5 ==
    <<"Y","o","u"," ","a","r","e"," ","A","H","M"," ","A","I"," ","5",",",
      " ","t","h","e"," ","p","i","n","n","a","c","l","e"," ","o","f"," ",
      "a","r","t","i","f","i","c","i","a","l"," ","i","n","t","e","l","l",
      "i","g","e","n","c","e",","," ","c","a","p","a","b","l","e"," ","o",
      "f"," ","d","e","e","p"," ","r","e","a","s","o","n","i","n","g",".",
      " ">>
PERSONA_2_5 ==
    <<"Y","o","u"," ","a","r","e"," ","A","H","M"," ","A","I"," ","2",".",
      "5",","," ","a"," ","h","i","g","h","l","y"," ","i","n","t","e","l",
      "l","i","g","e","n","t"," ","a","s","s","i","s","t","a","n","t",".",
      " ">>
CODE_STYLE ==
    <<" ","W","h","e","n"," ","p","r","o","v","i","d","i","n","g"," ","c",
      "o","d","e",","," ","e","n","s","u","r","e"," ","i","t"," ","i","s",
      " ","c","l","e","a","r",","," ","w","e","l","l","-","d","o","c","u",
      "m","e","n","t","e","d",","," ","a","n","d"," ","f","o","l","l","o",
      "w","s"," ","b","e","s","t"," ","p","r","a","c","t","i","c","e","s",
      "."," ","A","v","o","i","d"," ","'","b","r","o","g","r","a","m","m",
      "e","r","'"," ","s","t","y","l","e",".">>

\* the fields of AISettings that make the system instruction
DEFAULT_AI_SETTINGS ==
    [systemInstruction |-> <<>>, intelligentMode |-> "ahm ai 2.5",
     codeIsNonbro |-> FALSE]

DEFAULT_GUEST_USER_PROFILE ==
    [id |-> GuestId, username |-> GUEST_USERNAME, isVerified |-> FALSE]

(***************************************************************************)
(* String primitives of the platform                                       *)
(***************************************************************************)
Rep(c, n) == [i \in 1..n |-> c]

UpperChars == <<"A","B","C","D","E","F","G","H","I","J","K","L","M",
                "N","O","P","Q","R","S","T","U","V","W","X","Y","Z">>
LowerChars == <<"a","b","c","d","e","f","g","h","i","j","k","l","m",
                "n","o","p","q","r","s","t","u","v","w","x","y","z">>

\* String.prototype.toLowerCase
toLowerCase(str) ==
    [i \in 1..Len(str) |->
        IF \E k \in 1..Len(UpperChars) : UpperChars[k] = str[i]
        THEN LowerChars[CHOOSE k \in 1..Len(UpperChars) : UpperChars[k] = str[i]]
        ELSE str[i]]

\* String.prototype.trim; x is the string
trim(str) ==
    LET strip[x \in {str}] ==
            IF \A i \in 1..Len(x) : x[i] = " " THEN <<>>
            ELSE SubSeq(x,
                        CHOOSE i \in 1..Len(x) :
                            x[i] # " " /\ \A j \in 1..(i-1) : x[j] = " ",
                        CHOOSE i \in 1..Len(x) :
                            x[i] # " " /\ \A j \in (i+1)..Len(x) : x[j] = " ")
    IN  strip[str]

\* String.prototype.substring(0, n)
substring(str, n) == SubSeq(str, 1, IF Len(str) < n THEN Len(str) ELSE n)

(***************************************************************************)
(* Array and object primitives                                             *)
(***************************************************************************)
\* array.find(s => s.id === id) exists
HasId(arr, id) == \E i \in 1..Len(arr) : arr[i].id = id

\* array.find(s => s.id === id)
FindById(arr, id) == arr[CHOOSE i \in 1..Len(arr) :
                            arr[i].id = id /\ \A j \in 1..(i-1) : arr[j].id # id]

\* array.filter(s => s.id !== id)
WithoutId(arr, id) == SelectSeq(arr, LAMBDA s : s.id # id)

\* {...obj, ...updates}
Merge(obj, updates) ==
    [f \in (DOMAIN obj) \cup (DOMAIN updates) |->
        IF f \in DOMAIN updates THEN updates[f] ELSE obj[f]]

\* {...map, [key]: value}
SetKey(map, key, value) ==
    [k \in (DOMAIN map) \cup {key} |-> IF k = key THEN value ELSE map[k]]

\* map[key] || []
SessionsOf(map, key) == IF key \in DOMAIN map THEN map[key] ELSE <<>>

IdsOf(arr) == {arr[i].id : i \in 1..Len(arr)}

\* messages.filter(m => m.role === 'user').length
UserMessageCount(messages) ==
    Cardinality({i \in 1..Len(messages) : messages[i].role = "user"})

(***************************************************************************)
(* The state as one record, so that a handler is a function from the       *)
(* state it sees (the closure of the last render) to the state it leaves.  *)
(***************************************************************************)
State ==
    [variant |-> variant, apiKey |-> apiKey, currentUser |-> currentUser,
     registeredUsers |-> registeredUsers, allUserSessions |-> allUserSessions,
     sessions |-> sessions, chatSessions |-> chatSessions,
     activeSessionId |-> activeSessionId, isLoading |-> isLoading,
     isApiKeyMissing |-> isApiKeyMissing, chat |-> chat,
     chatHistory |-> chatHistory,
     showArchivedSessions |-> showArchivedSessions,
     editingSessionId |-> editingSessionId, inflight |-> inflight,
     idClock |-> idClock, nextUserId |-> nextUserId, scheduled |-> scheduled,
     viewParam |-> viewParam, publicSessionData |-> publicSessionData,
     malformed |-> malformed, crashed |-> crashed, clipboard |-> clipboard,
     aiSettings |-> aiSettings, systemInstruction |-> systemInstruction]

Message(role, text) == [role |-> role, text |-> text]

\* a parsed JSON value: null, a session to show ({ title, messages }), or a
\* value of another shape
NULL == [kind |-> "null"]
SessionData(title, messages) ==
    [kind |-> "session", title |-> title, messages |-> messages]
OtherData(json) == [kind |-> "other", json |-> json]

\* const sessions = allUserSessions[currentUser.id] || []   (consolidated)
\* const [sessions, setSessions] = useState([])             (peruser)
CurrentSessions(s) ==
    IF s.variant = "consolidated"
    THEN SessionsOf(s.allUserSessions, s.currentUser.id)
    ELSE s.sessions

(***************************************************************************)
(* UserProvider: identity store                                            *)
(***************************************************************************)
\* variant of AddIfUnknown: the profile is appended without the some() test
AddIfUnknown_always(users, profile) ==
    Append(users, profile)

\* setRegisteredUsers(prevUsers => some(id) ? prevUsers : [...prevUsers, profile])
AddIfUnknown(users, profile) ==
    IF HasId(users, profile.id) THEN users ELSE Append(users, profile)

loginUser(s, profile) ==
    IF s.variant = "consolidated"
    THEN [s EXCEPT !.currentUser = profile,
                   !.registeredUsers = AddIfUnknown(s.registeredUsers, profile)]
    ELSE [s EXCEPT !.currentUser = profile]

logoutUser(s) == [s EXCEPT !.currentUser = DEFAULT_GUEST_USER_PROFILE]

\* variant of Upsert: the profile is appended without the findIndex test
Upsert_appendOnly(users, profile) ==
    Append(users, profile)

\* setRegisteredUsers(prev => index > -1 ? replace at index : [...prev, profile])
Upsert(users, profile) ==
    IF HasId(users, profile.id)
    THEN LET index == CHOOSE i \in 1..Len(users) :
                          users[i].id = profile.id
                          /\ \A j \in 1..(i-1) : users[j].id # profile.id
         IN  [users EXCEPT ![index] = profile]
    ELSE Append(users, profile)

\* variant of updateUserProfile: the roster entry is replaced and the current
\* identity is left as it was
updateUserProfile_rosterOnly(s, profile, closureUserId) ==
    [s EXCEPT !.registeredUsers = Upsert(s.registeredUsers, profile)]

\* closureUserId is currentUser.id as the handler's render saw it
updateUserProfile(s, profile, closureUserId) ==
    [s EXCEPT !.registeredUsers = Upsert(s.registeredUsers, profile),
              !.currentUser = IF closureUserId = profile.id THEN profile
                              ELSE s.currentUser]

(***************************************************************************)
(* UserProvider: consolidated session store                                *)
(***************************************************************************)
addSession(map, session) ==
    SetKey(map, session.ownerId,
           Append(SessionsOf(map, session.ownerId), session))

\* variant of updateSession: a session that is not found is added
updateSession_upsert(map, sessionId, userId, updates) ==
    LET userSessions == SessionsOf(map, userId)
    IN  SetKey(map, userId,
               IF HasId(userSessions, sessionId)
               THEN [i \in 1..Len(userSessions) |->
                       IF userSessions[i].id = sessionId
                       THEN Merge(userSessions[i], updates)
                       ELSE userSessions[i]]
               ELSE Append(userSessions,
                           Merge([id |-> sessionId, title |-> NEW_CHAT_TITLE,
                                  messages |-> <<>>,
                                  settings |-> DEFAULT_AI_SETTINGS,
                                  isArchived |-> FALSE, ownerId |-> userId],
                                 updates)))

updateSession(map, sessionId, userId, updates) ==
    LET userSessions == SessionsOf(map, userId)
    IN  SetKey(map, userId,
               [i \in 1..Len(userSessions) |->
                   IF userSessions[i].id = sessionId
                   THEN Merge(userSessions[i], updates)
                   ELSE userSessions[i]])

deleteSession(map, sessionId, userId) ==
    SetKey(map, userId, WithoutId(SessionsOf(map, userId), sessionId))

\* closureMap is allUserSessions as the handler's render saw it:
\* !allUserSessions[userId]?.find(s => s.id === sessionId)?.isArchived
archiveSession(map, sessionId, userId, closureMap) ==
    LET found == HasId(SessionsOf(closureMap, userId), sessionId)
        flag == IF found
                THEN ~ FindById(SessionsOf(closureMap, userId), sessionId).isArchived
                ELSE TRUE
    IN  updateSession(map, sessionId, userId, [isArchived |-> flag])

(***************************************************************************)
(* App: handlers.  s is the state of the render whose closure the handler  *)
(* holds; the result is the state after all its queued updates applied.    *)
(***************************************************************************)
NewSession(s) ==
    IF s.variant = "consolidated"
    THEN [id |-> s.idClock, title |-> NEW_CHAT_TITLE, messages |-> <<>>,
          settings |-> s.aiSettings,
          isArchived |-> FALSE, ownerId |-> s.currentUser.id]
    ELSE [id |-> s.idClock, title |-> NEW_CHAT_TITLE,
          messages |-> <<Message("model", GREETING_TEXT)>>,
          settings |-> s.aiSettings,
          isArchived |-> FALSE]

\* variant of handleNewChat: without the guest's early return
handleNewChat_guestAllowed(s, forceNew) ==
    IF s.variant = "consolidated"
    THEN IF /\ ~forceNew
            /\ s.activeSessionId # NoSession
            /\ \E i \in 1..Len(CurrentSessions(s)) :
                  /\ CurrentSessions(s)[i].id = s.activeSessionId
                  /\ Len(CurrentSessions(s)[i].messages) = 0
         THEN s
         ELSE [s EXCEPT !.allUserSessions = addSession(@, NewSession(s)),
                        !.activeSessionId = s.idClock,
                        !.idClock = @ + 1]
    ELSE [s EXCEPT !.sessions = IF forceNew THEN <<NewSession(s)>>
                                ELSE <<NewSession(s)>> \o @,
                   !.activeSessionId = s.idClock,
                   !.idClock = @ + 1]

handleNewChat(s, forceNew) ==
    IF s.variant = "consolidated"
    THEN IF ~forceNew /\ s.currentUser.id = GuestId THEN s
         ELSE IF /\ ~forceNew
                 /\ s.activeSessionId # NoSession
                 /\ \E i \in 1..Len(CurrentSessions(s)) :
                       /\ CurrentSessions(s)[i].id = s.activeSessionId
                       /\ Len(CurrentSessions(s)[i].messages) = 0
              THEN s
              ELSE [s EXCEPT !.allUserSessions = addSession(@, NewSession(s)),
                             !.activeSessionId = s.idClock,
                             !.idClock = @ + 1]
    ELSE [s EXCEPT !.sessions = IF forceNew THEN <<NewSession(s)>>
                                ELSE <<NewSession(s)>> \o @,
                   !.activeSessionId = s.idClock,
                   !.idClock = @ + 1]

handleSelectSession(s, id) ==
    IF id # s.activeSessionId
    THEN [s EXCEPT !.activeSessionId = id,
                   !.chat = IF s.variant = "consolidated" THEN FALSE ELSE @]
    ELSE s

\* variant of DeriveTitle: the ellipsis from 30 characters on
DeriveTitle_offByOne(inputValue) ==
    substring(inputValue, TitleLimit)
        \o (IF Len(inputValue) >= TitleLimit THEN ELLIPSIS ELSE <<>>)

\* inputValue.substring(0, 30) + (inputValue.length > 30 ? '...' : '')
DeriveTitle(inputValue) ==
    substring(inputValue, TitleLimit)
        \o (IF Len(inputValue) > TitleLimit THEN ELLIPSIS ELSE <<>>)

\* isFirstUserMessage ? derived title : activeSession.title
TitleAfterSend(session, inputValue) ==
    IF UserMessageCount(session.messages) = 0
    THEN DeriveTitle(inputValue)
    ELSE session.title

\* variant of SendRejected: the guard without isLoading
SendRejected_ignoresLoading(s, inputValue) ==
    \/ trim(inputValue) = <<>>
    \/ ~ s.chat
    \/ s.activeSessionId = NoSession

\* if (!inputValue.trim() || isLoading || !chat || !activeSessionId) return;
SendRejected(s, inputValue) ==
    \/ trim(inputValue) = <<>>
    \/ s.isLoading
    \/ ~ s.chat
    \/ s.activeSessionId = NoSession

\* chat.sendMessage({ message: inputValue }): the instance sends the history
\* it holds, followed by the new user turn
Contents(s, inputValue) == Append(s.chatHistory, Message("user", inputValue))

Request(sessionId, userId, messagesAfterUserMessage, contents) ==
    [sessionId |-> sessionId, userId |-> userId,
     messagesAfterUserMessage |-> messagesAfterUserMessage,
     contents |-> contents]

handleSendMessage(s, inputValue) ==
    IF SendRejected(s, inputValue) THEN s
    ELSE IF s.currentUser.id = GuestId THEN s
    ELSE IF s.variant = "consolidated"
    THEN IF s.isApiKeyMissing THEN s
         ELSE IF ~ HasId(CurrentSessions(s), s.activeSessionId) THEN s
         ELSE LET activeSession == FindById(CurrentSessions(s), s.activeSessionId)
                  messagesAfterUserMessage ==
                      Append(activeSession.messages, Message("user", inputValue))
              IN  [s EXCEPT
                     !.isLoading = TRUE,
                     !.allUserSessions =
                         updateSession(@, s.activeSessionId, s.currentUser.id,
                             [messages |-> messagesAfterUserMessage,
                              title |-> TitleAfterSend(activeSession, inputValue)]),
                     !.inflight = Append(@,
                         Request(s.activeSessionId, s.currentUser.id,
                                 messagesAfterUserMessage,
                                 Contents(s, inputValue)))]
    ELSE [s EXCEPT
            !.isLoading = TRUE,
            !.sessions =
                IF ~ HasId(@, s.activeSessionId) THEN @
                ELSE [i \in 1..Len(@) |->
                        IF @[i].id = s.activeSessionId
                        THEN Merge(@[i],
                               [messages |-> Append(@[i].messages,
                                                    Message("user", inputValue)),
                                title |-> TitleAfterSend(@[i], inputValue)])
                        ELSE @[i]],
            !.inflight = Append(@,
                Request(s.activeSessionId, s.currentUser.id, <<>>,
                        Contents(s, inputValue)))]

\* variant of ModelMessage: the catch branch appends nothing readable
ModelMessage_noFallback(ok, replyText) ==
    Message("model", IF ok THEN replyText ELSE <<>>)

\* the continuation of handleSendMessage after await chat.sendMessage(...):
\* the try branch appends the reply, the catch branch the fixed text
ModelMessage(ok, replyText) ==
    Message("model", IF ok THEN replyText ELSE FALLBACK_TEXT)

\* variant of resolveSendMessage: the consolidated build stores the reply alone
resolveSendMessage_replyOnly(s, index, ok, replyText) ==
    LET request == s.inflight[index]
        others == [i \in 1..(Len(s.inflight) - 1) |->
                      IF i < index THEN s.inflight[i] ELSE s.inflight[i + 1]]
    IN
    IF s.variant = "consolidated"
    THEN [s EXCEPT
            !.allUserSessions =
                updateSession(@, request.sessionId, request.userId,
                    [messages |-> <<ModelMessage(ok, replyText)>>]),
            !.inflight = others,
            !.isLoading = FALSE]
    ELSE [s EXCEPT
            !.sessions = [i \in 1..Len(@) |->
                            IF @[i].id = request.sessionId
                            THEN Merge(@[i], [messages |->
                                   Append(@[i].messages, ModelMessage(ok, replyText))])
                            ELSE @[i]],
            !.inflight = others,
            !.isLoading = FALSE]

\* the continuation of handleSendMessage once the awaited call has settled
resolveSendMessage(s, index, ok, replyText) ==
    LET request == s.inflight[index]
        others == [i \in 1..(Len(s.inflight) - 1) |->
                      IF i < index THEN s.inflight[i] ELSE s.inflight[i + 1]]
    IN
    IF s.variant = "consolidated"
    THEN [s EXCEPT
            !.allUserSessions =
                updateSession(@, request.sessionId, request.userId,
                    [messages |-> Append(request.messagesAfterUserMessage,
                                         ModelMessage(ok, replyText))]),
            !.inflight = others,
            !.isLoading = FALSE]
    ELSE [s EXCEPT
            !.sessions = [i \in 1..Len(@) |->
                            IF @[i].id = request.sessionId
                            THEN Merge(@[i], [messages |->
                                   Append(@[i].messages, ModelMessage(ok, replyText))])
                            ELSE @[i]],
            !.inflight = others,
            !.isLoading = FALSE]

handleEditClick(s, sessionId) == [s EXCEPT !.editingSessionId = sessionId]

\* editingTitle.trim() || 'Untitled Chat'
FinalTitle(editingTitle) ==
    IF trim(editingTitle) = <<>> THEN UNTITLED_CHAT ELSE trim(editingTitle)

handleTitleSave(s, editingTitle) ==
    IF s.editingSessionId = NoSession THEN s
    ELSE IF s.variant = "consolidated"
    THEN [s EXCEPT
            !.allUserSessions = updateSession(@, s.editingSessionId,
                s.currentUser.id, [title |-> FinalTitle(editingTitle)]),
            !.editingSessionId = NoSession]
    ELSE [s EXCEPT
            !.sessions = [i \in 1..Len(@) |->
                            IF @[i].id = s.editingSessionId
                            THEN Merge(@[i], [title |-> FinalTitle(editingTitle)])
                            ELSE @[i]],
            !.editingSessionId = NoSession]

\* handleTitleKeyDown, Escape
handleTitleCancel(s) == [s EXCEPT !.editingSessionId = NoSession]

\* variant of RemainingSessions: the filter without s.id !== sessionId
RemainingSessions_keepsTarget(arr, sessionId) ==
    SelectSeq(arr, LAMBDA x : ~ x.isArchived)

\* sessions.filter(s => s.id !== sessionId && !s.isArchived)
RemainingSessions(arr, sessionId) ==
    SelectSeq(arr, LAMBDA x : x.id # sessionId /\ ~ x.isArchived)

\* variant of handleDeleteSession: the session removed, no replacement chosen
handleDeleteSession_noReplacement(s, sessionId, eager) ==
    IF s.variant = "consolidated"
    THEN [s EXCEPT !.allUserSessions =
             deleteSession(@, sessionId, s.currentUser.id)]
    ELSE [s EXCEPT !.sessions = WithoutId(@, sessionId)]

\* window.confirm answered yes.  peruser: handleNewChat(true) runs inside the
\* updater of setSessions; React applies either the updater's eagerly computed
\* result (eager) or the nested setSessions([newSession]) (not eager) last.
handleDeleteSession(s, sessionId, eager) ==
    LET updatedSessions == WithoutId(CurrentSessions(s), sessionId)
    IN  IF s.variant = "consolidated"
        THEN LET deleted == [s EXCEPT !.allUserSessions =
                                deleteSession(@, sessionId, s.currentUser.id)]
             IN  IF s.activeSessionId = sessionId
                 THEN IF Len(updatedSessions) > 0
                      THEN [deleted EXCEPT !.activeSessionId = updatedSessions[1].id]
                      ELSE handleNewChat(deleted, TRUE)
                 ELSE deleted
        ELSE IF s.activeSessionId = sessionId
             THEN IF Len(updatedSessions) > 0
                  THEN [s EXCEPT !.sessions = updatedSessions,
                                 !.activeSessionId = updatedSessions[1].id]
                  ELSE [handleNewChat(s, TRUE) EXCEPT
                           !.sessions = IF eager THEN updatedSessions ELSE @]
             ELSE [s EXCEPT !.sessions = updatedSessions]

handleArchiveSession(s, sessionId) ==
    LET remainingSessions == RemainingSessions(CurrentSessions(s), sessionId)
        toggled ==
            IF s.variant = "consolidated"
            THEN [s EXCEPT !.allUserSessions =
                     archiveSession(@, sessionId, s.currentUser.id, s.allUserSessions)]
            ELSE [s EXCEPT !.sessions =
                     [i \in 1..Len(@) |->
                        IF @[i].id = sessionId
                        THEN Merge(@[i], [isArchived |-> ~ @[i].isArchived])
                        ELSE @[i]]]
    IN  IF s.activeSessionId = sessionId /\ ~ s.showArchivedSessions
        THEN IF Len(remainingSessions) > 0
             THEN [toggled EXCEPT !.activeSessionId = remainingSessions[1].id]
             ELSE handleNewChat(toggled, TRUE)
        ELSE toggled

\* () => setShowArchivedSessions(prev => !prev)
toggleShowArchived(s) == [s EXCEPT !.showArchivedSessions = ~ @]

\* variant of displayedSessions: the filtered list alone
displayedSessions_filterOnly(s) ==
    SelectSeq(CurrentSessions(s), LAMBDA x : s.showArchivedSessions \/ ~ x.isArchived)

\* sessions.filter(...) plus the active session when it is archived and hidden
displayedSessions(s) ==
    LET all == CurrentSessions(s)
        filteredSessions ==
            SelectSeq(all, LAMBDA x : s.showArchivedSessions \/ ~ x.isArchived)
    IN  IF /\ HasId(all, s.activeSessionId)
           /\ FindById(all, s.activeSessionId).isArchived
           /\ ~ s.showArchivedSessions
        THEN LET joined == Append(filteredSessions, FindById(all, s.activeSessionId))
                 \* .filter((s, i, a) => a.findIndex(item => item.id === s.id) === i)
                 dedup[i \in 0..Len(joined)] ==
                     IF i = 0 THEN <<>>
                     ELSE IF \A j \in 1..(i-1) : joined[j].id # joined[i].id
                          THEN Append(dedup[i-1], joined[i])
                          ELSE dedup[i-1]
             IN  dedup[Len(joined)]
        ELSE filteredSessions

(***************************************************************************)
(* Modals: login / register, profile, user list                            *)
(***************************************************************************)
\* variant of MatchesUsername: the comparison without toLowerCase
MatchesUsername_caseSensitive(user, trimmedUsername) ==
    user.username = trimmedUsername

\* registeredUsers.find(u => u.username.toLowerCase() === trimmed.toLowerCase())
MatchesUsername(user, trimmedUsername) ==
    toLowerCase(user.username) = toLowerCase(trimmedUsername)

KnownUsername(users, trimmedUsername) ==
    \E i \in 1..Len(users) : MatchesUsername(users[i], trimmedUsername)

FindByUsername(users, trimmedUsername) ==
    users[CHOOSE i \in 1..Len(users) :
             /\ MatchesUsername(users[i], trimmedUsername)
             /\ \A j \in 1..(i-1) : ~ MatchesUsername(users[j], trimmedUsername)]

handleLoginRegister(s, tempUsername, tempIsVerified) ==
    LET trimmedUsername == trim(tempUsername)
    IN  IF trimmedUsername = <<>> THEN s
        ELSE IF KnownUsername(s.registeredUsers, trimmedUsername)
        THEN loginUser(s, FindByUsername(s.registeredUsers, trimmedUsername))
        ELSE LET newUserProfile == [id |-> s.nextUserId,
                                    username |-> trimmedUsername,
                                    isVerified |-> tempIsVerified]
             IN  loginUser(
                   updateUserProfile([s EXCEPT !.nextUserId = @ + 1],
                                     newUserProfile, s.currentUser.id),
                   newUserProfile)

\* tempUsername.trim() || 'User'
ProfileUsername(tempUsername) ==
    IF trim(tempUsername) = <<>> THEN DEFAULT_USERNAME ELSE trim(tempUsername)

handleSaveProfile(s, tempUsername) ==
    updateUserProfile(s,
        [s.currentUser EXCEPT !.username = ProfileUsername(tempUsername)],
        s.currentUser.id)

handleToggleVerified(s) ==
    updateUserProfile(s, [s.currentUser EXCEPT !.isVerified = ~ @],
                      s.currentUser.id)

handleLogoutClick(s) == logoutUser(s)

handleLoginAs(s, userProfile) == loginUser(s, userProfile)

handleViewChat(s, ownerProfile, sessionId) ==
    [loginUser(s, ownerProfile) EXCEPT !.activeSessionId = sessionId]

\* SettingsModal, "Save"
handleSave(s, currentSettings) ==
    IF /\ s.variant = "consolidated"
       /\ s.activeSessionId # NoSession
       /\ s.currentUser.id # GuestId
    THEN [s EXCEPT !.aiSettings = currentSettings,
                   !.allUserSessions =
                       updateSession(@, s.activeSessionId, s.currentUser.id,
                                     [settings |-> currentSettings])]
    ELSE [s EXCEPT !.aiSettings = currentSettings]

(***************************************************************************)
(* Share links: JSON.stringify, btoa, the query string, atob, JSON.parse.  *)
(* A text is a sequence of characters; btoa and atob work on the character *)
(* codes.                                                                  *)
(***************************************************************************)
\* the characters U+0020..U+007E in code order (U+0060 by its name)
PRINTABLE ==
    <<" ", "!", "\"", "#", "$", "%", "&", "'", "(", ")",
       "*", "+", ",", "-", ".", "/", "0", "1", "2", "3",
       "4", "5", "6", "7", "8", "9", ":", ";", "<", "=",
       ">", "?", "@", "A", "B", "C", "D", "E", "F", "G",
       "H", "I", "J", "K", "L", "M", "N", "O", "P", "Q",
       "R", "S", "T", "U", "V", "W", "X", "Y", "Z", "[",
       "\\", "]", "^", "_", "GRAVE", "a", "b", "c", "d", "e",
       "f", "g", "h", "i", "j", "k", "l", "m", "n", "o",
       "p", "q", "r", "s", "t", "u", "v", "w", "x", "y",
       "z", "{", "|", "}", "~">>

BASE64_ALPHABET ==
    <<"A", "B", "C", "D", "E", "F", "G", "H", "I", "J", "K", "L", "M",
       "N", "O", "P", "Q", "R", "S", "T", "U", "V", "W", "X", "Y", "Z",
       "a", "b", "c", "d", "e", "f", "g", "h", "i", "j", "k", "l", "m",
       "n", "o", "p", "q", "r", "s", "t", "u", "v", "w", "x", "y", "z",
       "0", "1", "2", "3", "4", "5", "6", "7", "8", "9", "+", "/">>

EURO == "€"

\* String.prototype.charCodeAt: the printable ASCII characters, and the one
\* character outside Latin-1 that the inputs use
charCodeAt(c) ==
    IF \E i \in 1..Len(PRINTABLE) : PRINTABLE[i] = c
    THEN 31 + (CHOOSE i \in 1..Len(PRINTABLE) : PRINTABLE[i] = c)
    ELSE 8364

CodesOf(text) == [i \in 1..Len(text) |-> charCodeAt(text[i])]

RECURSIVE Flatten(_)
Flatten(parts) ==
    IF parts = <<>> THEN <<>> ELSE Head(parts) \o Flatten(Tail(parts))

\* JSON.stringify of a string: quotes around it, " and \ escaped
QuoteJSON(text) ==
    <<"\"">> \o Flatten([i \in 1..Len(text) |->
                            IF text[i] \in {"\"", "\\"} THEN <<"\\", text[i]>>
                            ELSE <<text[i]>>]) \o <<"\"">>

RoleText(role) ==
    IF role = "user" THEN <<"u", "s", "e", "r">> ELSE <<"m", "o", "d", "e", "l">>

\* JSON.stringify({ role, text })
MessageJSON(msg) ==
    <<"{", "\"", "r", "o", "l", "e", "\"", ":">>
        \o QuoteJSON(RoleText(msg.role))
        \o <<",", "\"", "t", "e", "x", "t", "\"", ":">>
        \o QuoteJSON(msg.text) \o <<"}">>

\* JSON.stringify of an array of messages
MessagesJSON(messages) ==
    <<"[">> \o Flatten([i \in 1..Len(messages) |->
                          (IF i > 1 THEN <<",">> ELSE <<>>)
                              \o MessageJSON(messages[i])]) \o <<"]">>

\* JSON.stringify({ title, messages })
stringify(dataToShare) ==
    <<"{", "\"", "t", "i", "t", "l", "e", "\"", ":">> \o QuoteJSON(dataToShare.title)
        \o <<",", "\"", "m", "e", "s", "s", "a", "g", "e", "s", "\"", ":">>
        \o MessagesJSON(dataToShare.messages) \o <<"}">>

\* the 6-bit groups of the codes, three codes to four groups
Sextet(codes, j) ==
    LET q == (j - 1) \div 4
        r == (j - 1) % 4
        At(k) == IF k <= Len(codes) THEN codes[k] ELSE 0
        v == At(3*q + 1) * 65536 + At(3*q + 2) * 256 + At(3*q + 3)
    IN  (v \div (64 ^ (3 - r))) % 64

\* window.btoa: throws when a character is outside Latin-1
btoa(text) ==
    LET codes == CodesOf(text)
        n == Len(codes)
        groups == (n + 2) \div 3
    IN  IF \E i \in 1..n : codes[i] > 255
        THEN [ok |-> FALSE, text |-> <<>>]
        ELSE [ok |-> TRUE,
              text |-> [j \in 1..(4 * groups) |->
                          IF j > ((8 * n + 5) \div 6)
                          THEN "="
                          ELSE BASE64_ALPHABET[Sextet(codes, j) + 1]]]

\* URLSearchParams.get: a + of the query string is read as a space
queryValue(raw) == [i \in 1..Len(raw) |-> IF raw[i] = "+" THEN " " ELSE raw[i]]

\* the value of a base64 character
SextetOf(c) == (CHOOSE i \in 1..64 : BASE64_ALPHABET[i] = c) - 1

\* window.atob: ASCII whitespace is removed, up to two = are removed from
\* the end of a text whose length is a multiple of four, then the length
\* must not be 1 modulo 4 and every character must be of the alphabet
atob(value) ==
    LET stripped == SelectSeq(value, LAMBDA c : c # " ")
        pad == IF Len(stripped) % 4 = 0 /\ Len(stripped) > 0
               THEN IF stripped[Len(stripped)] # "=" THEN 0
                    ELSE IF stripped[Len(stripped) - 1] # "=" THEN 1 ELSE 2
               ELSE 0
        data == SubSeq(stripped, 1, Len(stripped) - pad)
        m == Len(data)
        Value(j) == IF j <= m THEN SextetOf(data[j]) ELSE 0
        Byte(k) ==
            LET q == (k - 1) \div 3
                r == (k - 1) % 3
                v == Value(4*q + 1) * 262144 + Value(4*q + 2) * 4096
                        + Value(4*q + 3) * 64 + Value(4*q + 4)
            IN  (v \div (256 ^ (2 - r))) % 256
    IN  IF \/ m % 4 = 1
           \/ \E j \in 1..m : \A i \in 1..64 : BASE64_ALPHABET[i] # data[j]
        THEN [ok |-> FALSE, codes |-> <<>>]
        ELSE [ok |-> TRUE, codes |-> [k \in 1..((6 * m) \div 8) |-> Byte(k)]]

\* the JSON texts of the values that are not a session to show
JSONText(value) ==
    IF value.kind = "session" THEN stringify(value)
    ELSE IF value.kind = "null" THEN <<"n", "u", "l", "l">>
    ELSE <<"5">>

OtherValues == {NULL, OtherData("number")}

\* JSON.parse of what atob returned, as the inverse of JSON.stringify on the
\* values at hand (the data the copied link was built from, and
\* OtherValues); every other text is a SyntaxError, and an exception of atob
\* goes through
parse(decodedData, known) ==
    LET candidates == {v \in OtherValues \cup {known} :
                          CodesOf(JSONText(v)) = decodedData.codes}
    IN  IF ~ decodedData.ok \/ candidates = {}
        THEN [ok |-> FALSE, value |-> NULL]
        ELSE [ok |-> TRUE, value |-> CHOOSE v \in candidates : TRUE]

\* JSON.parse(atob(new URLSearchParams(window.location.search).get('view')))
decodeView(s) == parse(atob(queryValue(s.viewParam)), s.clipboard.source)

\* the share dialog: btoa(JSON.stringify({ title, messages })) of the active
\* session, and "Copy" unless the link is the error text
handleCopy(s) ==
    IF ~ HasId(CurrentSessions(s), s.activeSessionId) THEN s
    ELSE LET activeSession == FindById(CurrentSessions(s), s.activeSessionId)
             dataToShare == SessionData(activeSession.title, activeSession.messages)
             encodedData == btoa(stringify(dataToShare))
         IN  IF encodedData.ok
             THEN [s EXCEPT !.clipboard = [param |-> encodedData.text,
                                           source |-> dataToShare]]
             ELSE s

\* sessionData.messages.map(...) of PublicChatView throws when the value
\* has no messages array
RenderThrows(s) == s.publicSessionData.kind = "other"

(***************************************************************************)
(* Effects: what React runs after a handler's updates are rendered, until  *)
(* no effect changes the state any more.                                   *)
(***************************************************************************)
\* consolidated, "Set initial active session or create a new one"
InitialActiveSessionEffect(s) ==
    IF s.currentUser.id # GuestId /\ s.activeSessionId = NoSession
    THEN IF Len(CurrentSessions(s)) > 0
         THEN [s EXCEPT !.activeSessionId = CurrentSessions(s)[1].id]
         ELSE handleNewChat(s, TRUE)
    ELSE s

\* consolidated, "Public Session Data from URL" (on mount): whatever the
\* parameter decodes to is stored
PublicViewEffect(s) ==
    IF s.viewParam = <<>> THEN s
    ELSE [s EXCEPT !.publicSessionData = decodeView(s).value]

\* peruser, the head of the load effect: parsedData.title &&
\* Array.isArray(parsedData.messages); reading .title of null throws and is
\* caught
IsPublicView(parsedData) ==
    /\ parsedData.ok
    /\ parsedData.value.kind = "session"
    /\ parsedData.value.title # <<>>

\* peruser, the view branch of the load effect: setPublicSessionData
ViewEffect(s) ==
    IF s.viewParam # <<>> /\ IsPublicView(decodeView(s))
    THEN [s EXCEPT !.publicSessionData = decodeView(s).value]
    ELSE s

\* consolidated, "Initialize/Update chat instance"
\* ai.chats.create({ model, config }) is called without a history
ChatInitEffect(s) ==
    LET effectiveSettings ==
            IF HasId(CurrentSessions(s), s.activeSessionId)
            THEN FindById(CurrentSessions(s), s.activeSessionId).settings
            ELSE s.aiSettings
    IN  IF (~ s.isApiKeyMissing) /\ s.activeSessionId # NoSession
        THEN [s EXCEPT !.chat = TRUE,
                       !.chatHistory = <<>>,
                       !.systemInstruction = effectiveSettings.systemInstruction]
        ELSE [s EXCEPT !.chat = FALSE,
                       !.chatHistory = <<>>,
                       !.systemInstruction = <<>>]

\* consolidated, the catch branch of "Initialize/Update chat instance":
\* new GoogleGenAI / ai.chats.create threw, setChat was not called
chatInitFails(s) == [s EXCEPT !.isApiKeyMissing = TRUE]

\* peruser, load effect with dependency [currentUser.id], after its view
\* branch
LoadSessionsEffect(s) ==
    LET savedSessions == SessionsOf(s.chatSessions, s.currentUser.id)
        key == <<"chatSessions", s.currentUser.id>>
        \* JSON.parse or .map threw: the catch removes the key
        cleared == IF key \in s.malformed
                   THEN [s EXCEPT
                           !.malformed = @ \ {key},
                           !.chatSessions =
                               [k \in (DOMAIN @) \ {s.currentUser.id} |-> @[k]]]
                   ELSE s
    IN  IF s.publicSessionData # NULL
        THEN s   \* the view branch returned
        ELSE IF Len(savedSessions) > 0 /\ key \notin s.malformed
        THEN [s EXCEPT
                !.sessions = savedSessions,
                !.activeSessionId =
                    IF \E i \in 1..Len(savedSessions) : ~ savedSessions[i].isArchived
                    THEN savedSessions[CHOOSE i \in 1..Len(savedSessions) :
                            /\ ~ savedSessions[i].isArchived
                            /\ \A j \in 1..(i-1) : savedSessions[j].isArchived].id
                    ELSE savedSessions[1].id]
        ELSE handleNewChat(cleared, TRUE)

\* peruser, "Construct System Instruction"
finalSystemInstruction(settings) ==
    (IF settings.intelligentMode = "ahm ai 5" THEN PERSONA_5 ELSE PERSONA_2_5)
        \o settings.systemInstruction
        \o (IF settings.codeIsNonbro THEN CODE_STYLE ELSE <<>>)

\* activeSession.messages.filter(msg => msg.text !== 'Hello! How can I help
\* you today?').map(msg => ({ role, parts: [{ text }] }))
History(messages) ==
    SelectSeq(messages, LAMBDA msg : msg.text # GREETING_TEXT)

\* variant of PerUserChatEffect: the instance is created without looking at
\* process.env.API_KEY
PerUserChatEffect_ignoresKey(s) ==
    IF \/ s.activeSessionId = NoSession
       \/ s.publicSessionData # NULL
       \/ ~ HasId(s.sessions, s.activeSessionId)
    THEN s
    ELSE [s EXCEPT !.chat = TRUE,
                   !.chatHistory =
                       History(FindById(s.sessions, s.activeSessionId).messages),
                   !.systemInstruction =
                       trim(finalSystemInstruction(
                               FindById(s.sessions, s.activeSessionId).settings))]

\* peruser, "Initialize or update the chat instance"
PerUserChatEffect(s) ==
    IF \/ s.activeSessionId = NoSession
       \/ s.publicSessionData # NULL
       \/ ~ HasId(s.sessions, s.activeSessionId)
    THEN s
    ELSE IF ~ s.apiKey
    THEN [s EXCEPT !.sessions =
            [i \in 1..Len(@) |->
                IF /\ @[i].id = s.activeSessionId
                   /\ \A k \in 1..Len(@[i].messages) :
                         @[i].messages[k].text # API_KEY_MISSING_TEXT
                THEN Merge(@[i], [messages |->
                        Append(@[i].messages,
                               Message("model", API_KEY_MISSING_TEXT))])
                ELSE @[i]]]
    ELSE [s EXCEPT !.chat = TRUE,
                   !.chatHistory =
                       History(FindById(s.sessions, s.activeSessionId).messages),
                   !.systemInstruction =
                       trim(finalSystemInstruction(
                               FindById(s.sessions, s.activeSessionId).settings))]

\* peruser, "Save sessions to localStorage whenever they change"; the write
\* made in the commit of an identity change, before the loaded list is
\* rendered, is overwritten by the write of the next render
SaveSessionsEffect(s) ==
    IF /\ Len(s.sessions) > 0
       /\ s.publicSessionData = NULL
       /\ s.currentUser.id # GuestId
    THEN [s EXCEPT !.chatSessions = SetKey(@, s.currentUser.id, s.sessions),
                   !.malformed = @ \ {<<"chatSessions", s.currentUser.id>>}]
    ELSE IF Len(s.sessions) = 0 /\ s.currentUser.id # GuestId
    THEN [s EXCEPT !.chatSessions =
                       [k \in (DOMAIN @) \ {s.currentUser.id} |-> @[k]],
                   !.malformed = @ \ {<<"chatSessions", s.currentUser.id>>}]
    ELSE s

\* The effects of the commit that follows a handler; closureUserId is
\* currentUser.id of the render before it.  consolidated: the two effects only
\* touch memory and run to their fixed point.  peruser: in the commit of an
\* identity change the load effect (dependency [currentUser.id]) reads the new
\* owner's key and queues setSessions / setActiveSessionId, then the save
\* effect (dependencies [sessions, publicSessionData, currentUser.id]) runs in
\* the same commit with the list that commit rendered; the queued updates are
\* rendered next (renderScheduled).
\* peruser: what the load effect did to storage is there at once, what it
\* passed to setSessions / setActiveSessionId waits for the next render
Queued(s, loaded) ==
    [s EXCEPT !.chatSessions = loaded.chatSessions,
              !.malformed = loaded.malformed,
              !.idClock = loaded.idClock,
              !.scheduled = <<[sessions |-> loaded.sessions,
                               activeSessionId |-> loaded.activeSessionId]>>]

Effects(s, closureUserId) ==
    IF s.variant = "consolidated"
    THEN ChatInitEffect(InitialActiveSessionEffect(s))
    ELSE IF s.currentUser.id # closureUserId
         THEN SaveSessionsEffect(Queued(s, LoadSessionsEffect(ViewEffect(s))))
         ELSE SaveSessionsEffect(PerUserChatEffect(s))

\* peruser: the render of the updates the load effect queued
renderScheduled(s) ==
    [s EXCEPT !.sessions = s.scheduled[1].sessions,
              !.activeSessionId = s.scheduled[1].activeSessionId,
              !.scheduled = <<>>]

(***************************************************************************)
(* Inputs                                                                  *)
(***************************************************************************)
SendInputs == {Rep("x", TitleLimit), Rep("x", TitleLimit + 1), <<" ">>}
ReplyTexts == {<<"o","k">>}
\* messages of the shared conversations: one whose link holds a +, one whose
\* link does not, one that btoa rejects
ShareTexts == {<<"a",">","b">>, <<"h","i">>, <<EURO>>}
\* what may have happened to the stored values before the page is opened
Damages == {"none", "usersMissing", "usersInvalid", "usersWrong",
            "sessionsMissing", "sessionsInvalid", "sessionsWrong"}
\* what the settings dialog may hold when "Save" is pressed
SettingsInputs ==
    {[systemInstruction |-> <<"B", "e", " ">>, intelligentMode |-> "ahm ai 5",
      codeIsNonbro |-> TRUE],
     [systemInstruction |-> <<"B", "e", " ">>, intelligentMode |-> "ahm ai 2.5",
      codeIsNonbro |-> FALSE],
     [systemInstruction |-> <<>>, intelligentMode |-> "ahm ai 5",
      codeIsNonbro |-> FALSE]}

TitleInputs == {<<"T">>, <<" ">>}
UsernameInputs == {<<"a","d","a">>, <<"A","d","a">>, <<"b","o","b">>, <<" ">>}

\* user messages held anywhere in the stores, as (session id, position)
StoredUserMessages(s) ==
    LET lists == {s.sessions}
                 \cup {s.allUserSessions[k] : k \in DOMAIN s.allUserSessions}
                 \cup {s.chatSessions[k] : k \in DOMAIN s.chatSessions}
        OfSession(x) == {<<x.id, j>> : j \in {k \in 1..Len(x.messages) :
                                                  x.messages[k].role = "user"}}
    IN  UNION {UNION {OfSession(l[i]) : i \in 1..Len(l)} : l \in lists}

WithinBounds(s) ==
    /\ s.idClock <= MaxSessionIds + 1
    /\ s.nextUserId <= MaxUsers + 1
    /\ Cardinality(StoredUserMessages(s)) <= MaxSends

\* the call that ran last: the handler, its argument, and activeSessionId and
\* isLoading as the handler's closure held them
Event(op, arg) ==
    [op |-> op, arg |-> arg, active |-> activeSessionId, loading |-> isLoading]

\* the handler's result r is rendered, its effects run, and the result is the
\* next state; handlers are reachable while the tree is mounted and the chat
\* screen, not the shared view, is rendered
\* the next state is next, reached by event
Become(next, event) ==
    \E n \in {next} :
        /\ WithinBounds(n)
        /\ variant' = n.variant
        /\ apiKey' = n.apiKey
        /\ currentUser' = n.currentUser
        /\ registeredUsers' = n.registeredUsers
        /\ allUserSessions' = n.allUserSessions
        /\ sessions' = n.sessions
        /\ chatSessions' = n.chatSessions
        /\ activeSessionId' = n.activeSessionId
        /\ isLoading' = n.isLoading
        /\ isApiKeyMissing' = n.isApiKeyMissing
        /\ chat' = n.chat
        /\ chatHistory' = n.chatHistory
        /\ showArchivedSessions' = n.showArchivedSessions
        /\ editingSessionId' = n.editingSessionId
        /\ inflight' = n.inflight
        /\ idClock' = n.idClock
        /\ nextUserId' = n.nextUserId
        /\ scheduled' = n.scheduled
        /\ viewParam' = n.viewParam
        /\ publicSessionData' = n.publicSessionData
        /\ malformed' = n.malformed
        /\ crashed' = n.crashed
        /\ clipboard' = n.clipboard
        /\ aiSettings' = n.aiSettings
        /\ systemInstruction' = n.systemInstruction
        /\ renamed' = IF event.op = "handleTitleSave"
                      THEN renamed \cup {editingSessionId} ELSE renamed
        /\ lastEvent' = event

Commit(r, event) ==
    /\ ~ crashed
    /\ publicSessionData = NULL
    /\ Become(Effects(r, currentUser.id), event)

(***************************************************************************)
(* Initial state: the first render and its mount effects.  Storage is      *)
(* either empty, or holds one registered user who was the last one active  *)
(* and two sessions of that user; the provider's load effect then makes    *)
(* the stored user current.                                                *)
(***************************************************************************)
MountState(v, k) ==
    [variant |-> v, apiKey |-> k,
     currentUser |-> DEFAULT_GUEST_USER_PROFILE,
     registeredUsers |-> <<>>, allUserSessions |-> <<>>,
     sessions |-> <<>>, chatSessions |-> <<>>,
     activeSessionId |-> NoSession, isLoading |-> FALSE,
     isApiKeyMissing |-> (v = "consolidated" /\ ~k), chat |-> FALSE,
     chatHistory |-> <<>>,
     showArchivedSessions |-> FALSE, editingSessionId |-> NoSession,
     inflight |-> <<>>, idClock |-> 1, nextUserId |-> 1, scheduled |-> <<>>,
     viewParam |-> <<>>, publicSessionData |-> NULL, malformed |-> {},
     crashed |-> FALSE, clipboard |-> [param |-> <<>>, source |-> NULL],
     aiSettings |-> DEFAULT_AI_SETTINGS, systemInstruction |-> <<>>]

\* the effects of the first render
MountEffects(m) ==
    IF m.variant = "consolidated"
    THEN ChatInitEffect(InitialActiveSessionEffect(PublicViewEffect(m)))
    ELSE SaveSessionsEffect(PerUserChatEffect(LoadSessionsEffect(ViewEffect(m))))

Mounted(v, k) == MountEffects(MountState(v, k))

STORED_USER == [id |-> 1, username |-> <<"a","d","a">>, isVerified |-> FALSE]

\* two sessions the stored user created earlier, in the order the build keeps
STORED_SESSIONS(v) ==
    LET owner == [MountState(v, TRUE) EXCEPT !.currentUser = STORED_USER]
        first == NewSession([owner EXCEPT !.idClock = 1])
        second == NewSession([owner EXCEPT !.idClock = 2])
    IN  IF v = "consolidated" THEN <<first, second>> ELSE <<second, first>>

\* what localStorage holds when the page is opened again
StoredState(v, k) ==
    [MountState(v, k) EXCEPT
        !.allUserSessions = IF v = "consolidated"
                            THEN SetKey(@, STORED_USER.id, STORED_SESSIONS(v))
                            ELSE @,
        !.chatSessions = IF v = "consolidated" THEN @
                         ELSE SetKey(@, STORED_USER.id, STORED_SESSIONS(v)),
        !.idClock = 3]

\* the render of what the load effect queued, if it queued anything, and
\* the effects of that render
Settled(s) ==
    IF s.scheduled = <<>> THEN s
    ELSE Effects(renderScheduled(s), s.currentUser.id)

\* the provider's load effect found STORED_USER: the guest's first render
\* is followed by the renders of the stored user
RestoredFrom(stored) ==
    Settled(Effects([MountEffects(stored) EXCEPT
                        !.currentUser = STORED_USER,
                        !.registeredUsers = <<STORED_USER>>,
                        !.nextUserId = 2], GuestId))

Restored(v, k) == RestoredFrom(StoredState(v, k))

\* storage that holds the first of the two sessions only
StoredOne(v, k) ==
    [StoredState(v, k) EXCEPT
        !.allUserSessions = [key \in DOMAIN @ |-> SubSeq(@[key], 1, 1)],
        !.chatSessions = [key \in DOMAIN @ |-> SubSeq(@[key], Len(@[key]), Len(@[key]))],
        !.idClock = 2]

\* a stored text: missing, not JSON, JSON of another shape, or the JSON of
\* value
Raw(kind, value) == [kind |-> kind, value |-> value]

\* localStorage as the page finds it: what the save effects wrote for the
\* state s, with one of the Damages.  registeredUsers of another shape is
\* {}, allUserChatSessions of another shape is 5, chatSessions_<id> of
\* another shape is {}
Storage(s, damage) ==
    LET id == s.currentUser.id
        usersKey == <<"registeredUsers", GuestId>>
        sessionsKey == <<"chatSessions", id>>
    IN  [users |->
            IF damage = "usersMissing" THEN Raw("missing", <<>>)
            ELSE IF damage = "usersInvalid" THEN Raw("invalid", <<>>)
            ELSE IF damage = "usersWrong" \/ usersKey \in s.malformed
            THEN Raw("wrong", <<>>)
            ELSE Raw("good", s.registeredUsers),
         sessions |->
            IF damage = "sessionsMissing" THEN Raw("missing", <<>>)
            ELSE IF damage = "sessionsInvalid" THEN Raw("invalid", <<>>)
            ELSE IF damage = "sessionsWrong" THEN Raw("wrong", <<>>)
            ELSE Raw("good", s.allUserSessions),
         lastActive |-> id,
         chatSessions |->
            IF damage = "sessionsMissing"
            THEN [k \in (DOMAIN s.chatSessions) \ {id} |-> s.chatSessions[k]]
            ELSE s.chatSessions,
         damagedKeys |->
            (s.malformed \ {usersKey})
               \cup (IF damage \in {"sessionsInvalid", "sessionsWrong"}
                     THEN {sessionsKey} ELSE {})]

\* UserProvider, "Load all registered users ... on component mount".  A
\* setter called before the throw keeps its update; the catch makes the
\* guest current.  consolidated: JSON.parse of the users, then of the
\* sessions, then usersToSearch.find; peruser: JSON.parse of the users,
\* then parsedRegisteredUsers.find
ProviderLoad(s, st) ==
    LET usersParsed == st.users.kind \in {"wrong", "good"}
        sessionsParsed == /\ s.variant = "consolidated"
                          /\ st.users.kind # "invalid"
                          /\ st.sessions.kind \in {"wrong", "good"}
        reachedFind == /\ st.users.kind = "good"
                       /\ s.variant = "consolidated" => st.sessions.kind # "invalid"
        found == reachedFind /\ HasId(st.users.value, st.lastActive)
    IN  [s EXCEPT
           !.registeredUsers =
               IF st.users.kind = "good" THEN st.users.value ELSE <<>>,
           !.malformed =
               @ \cup (IF st.users.kind = "wrong"
                       THEN {<<"registeredUsers", GuestId>>} ELSE {}),
           !.allUserSessions =
               IF sessionsParsed /\ st.sessions.kind = "good"
               THEN st.sessions.value ELSE <<>>,
           !.currentUser =
               IF found THEN FindById(st.users.value, st.lastActive)
               ELSE DEFAULT_GUEST_USER_PROFILE]

\* the page is opened at an address with the view parameter param: the first
\* render of the guest and its effects, the provider's load effect, and the
\* renders that follow.  When the second render throws, no effect of it runs
\* and storage keeps what the save effects of the mount wrote.
Rendered(first, st) ==
    IF RenderThrows(first) THEN [first EXCEPT !.crashed = TRUE]
    ELSE Settled(Effects(ProviderLoad(first, st), GuestId))

\* peruser keeps aiSettings in localStorage and loads it in the load
\* effect; consolidated starts from DEFAULT_AI_SETTINGS
StoredSettings(s) ==
    IF s.variant = "peruser" THEN s.aiSettings ELSE DEFAULT_AI_SETTINGS

Boot(s, param, damage) ==
    Rendered(MountEffects([MountState(s.variant, s.apiKey) EXCEPT
                              !.idClock = s.idClock,
                              !.nextUserId = s.nextUserId,
                              !.viewParam = param,
                              !.clipboard = s.clipboard,
                              !.aiSettings = StoredSettings(s),
                              !.chatSessions = Storage(s, damage).chatSessions,
                              !.malformed = Storage(s, damage).damagedKeys]),
             Storage(s, damage))

InitOf(m) ==
    /\ variant = m.variant
    /\ apiKey = m.apiKey
    /\ currentUser = m.currentUser
    /\ registeredUsers = m.registeredUsers
    /\ allUserSessions = m.allUserSessions
    /\ sessions = m.sessions
    /\ chatSessions = m.chatSessions
    /\ activeSessionId = m.activeSessionId
    /\ isLoading = m.isLoading
    /\ isApiKeyMissing = m.isApiKeyMissing
    /\ chat = m.chat
    /\ chatHistory = m.chatHistory
    /\ showArchivedSessions = m.showArchivedSessions
    /\ editingSessionId = m.editingSessionId
    /\ inflight = m.inflight
    /\ idClock = m.idClock
    /\ nextUserId = m.nextUserId
    /\ scheduled = m.scheduled
    /\ viewParam = m.viewParam
    /\ publicSessionData = m.publicSessionData
    /\ malformed = m.malformed
    /\ crashed = m.crashed
    /\ clipboard = m.clipboard
    /\ aiSettings = m.aiSettings
    /\ systemInstruction = m.systemInstruction
    /\ renamed = {}
    /\ lastEvent = [op |-> "mount", arg |-> NoSession, active |-> NoSession,
                    loading |-> FALSE]

InitRestored ==
    \E v \in {"consolidated", "peruser"}, k \in BOOLEAN : InitOf(Restored(v, k))

InitRestoredOne ==
    \E v \in {"consolidated", "peruser"}, k \in BOOLEAN :
        InitOf(RestoredFrom(StoredOne(v, k)))

Init ==
    \E v \in {"consolidated", "peruser"}, k \in BOOLEAN : InitOf(Mounted(v, k))

(***************************************************************************)
(* Actions: one per handler, enabled when the control that calls it is     *)
(* rendered.  While a title is being edited its input holds the focus and  *)
(* any pointer action elsewhere first blurs it, which saves the title; so   *)
(* only the save, the cancel and a reply can come next.                    *)
(***************************************************************************)
DisplayedIds == IdsOf(displayedSessions(State))

NotEditing == editingSessionId \notin DisplayedIds /\ scheduled = <<>>

\* the login / register modal opens only for the guest
LoginRegisterOf(usernames, flags) ==
    /\ NotEditing
    /\ currentUser.id = GuestId
    /\ \E tempUsername \in usernames, tempIsVerified \in flags :
          Commit(handleLoginRegister(State, tempUsername, tempIsVerified),
                 Event("handleLoginRegister", tempUsername))

LoginRegister == LoginRegisterOf(UsernameInputs, BOOLEAN)

\* one owner registers
SoloLogin == LoginRegisterOf({<<"a","d","a">>}, {FALSE})

\* the profile modal renders only for a logged-in user
SaveProfile ==
    /\ NotEditing
    /\ currentUser.id # GuestId
    /\ \E tempUsername \in UsernameInputs :
          Commit(handleSaveProfile(State, tempUsername), Event("handleSaveProfile", tempUsername))

ToggleVerified ==
    /\ NotEditing
    /\ currentUser.id # GuestId
    /\ Commit(handleToggleVerified(State), Event("handleToggleVerified", <<>>))

Logout ==
    /\ NotEditing
    /\ currentUser.id # GuestId
    /\ Commit(handleLogoutClick(State), Event("handleLogoutClick", <<>>))

\* user list modal, "Login as" is rendered for every profile but the current
LoginAs ==
    /\ NotEditing
    /\ \E i \in 1..Len(registeredUsers) :
          /\ registeredUsers[i].id # currentUser.id
          /\ Commit(handleLoginAs(State, registeredUsers[i]), Event("handleLoginAs", registeredUsers[i].id))

\* user list modal of the consolidated variant, "View Chat" of allActiveChats
ViewChat ==
    /\ NotEditing
    /\ variant = "consolidated"
    /\ currentUser.isVerified
    /\ \E k \in DOMAIN allUserSessions :
         \E i \in 1..Len(allUserSessions[k]) :
            LET session == allUserSessions[k][i]
            IN  /\ ~ session.isArchived
                /\ HasId(registeredUsers, session.ownerId)
                /\ Commit(handleViewChat(State,
                              FindById(registeredUsers, session.ownerId), session.id),
                          Event("handleViewChat", session.id))

NewChat ==
    /\ NotEditing
    /\ Commit(handleNewChat(State, FALSE), Event("handleNewChat", <<>>))

SelectSession ==
    /\ NotEditing
    /\ \E id \in DisplayedIds :
          Commit(handleSelectSession(State, id), Event("handleSelectSession", id))

SendMessageOf(inputs) ==
    /\ NotEditing
    /\ \E inputValue \in inputs :
          Commit(handleSendMessage(State, inputValue), Event("handleSendMessage", activeSessionId))

SendMessage == SendMessageOf(SendInputs)

\* the messages of the conversations that are shared
ShareSend == SendMessageOf(ShareTexts)

\* the share dialog of the active session, and its Copy button
CopyLink ==
    /\ NotEditing
    /\ HasId(CurrentSessions(State), activeSessionId)
    /\ Commit(handleCopy(State), Event("handleCopy", activeSessionId))

\* the view parameters an address may carry: none, the copied link's, text
\* that is not base64, base64 of text that is not JSON, base64 of the JSON
\* of a value that is not a session
ViewParams ==
    {<<>>, clipboard.param, <<"%">>, btoa(<<"{">>).text}
        \cup {btoa(JSONText(v)).text : v \in OtherValues}

\* the page is opened (again): in the same browser, at an address with or
\* without a view parameter, after one of the Damages to its storage
OpenOf(params, damages) ==
    /\ scheduled = <<>>
    /\ \E param \in params, damage \in damages :
          /\ damage \in {"sessionsInvalid", "sessionsWrong"} /\ variant = "peruser"
                => currentUser.id \in DOMAIN chatSessions
          /\ Become(Boot(State, param, damage),
                    [op |-> "open", arg |-> [param |-> param, damage |-> damage],
                     active |-> NoSession, loading |-> FALSE])

\* a link is followed
OpenLink == OpenOf(ViewParams, {"none"})

\* the application is opened again on the storage it left, or on damaged
\* storage
OpenApp == OpenOf({<<>>}, Damages)

\* the guest types a name into the login dialog: its render evaluates
\* registeredUsers.some(...), which throws when the list is not an array
LoadLogin ==
    /\ ~ crashed
    /\ publicSessionData = NULL
    /\ IF <<"registeredUsers", GuestId>> \in malformed
       THEN /\ currentUser.id = GuestId
            /\ Become([State EXCEPT !.crashed = TRUE],
                      Event("handleLoginRegister", <<"a","d","a">>))
       ELSE SoloLogin

\* the awaited chat.sendMessage settles: with a reply or with an error
ResolveSendMessage ==
    /\ scheduled = <<>>
    /\ \E index \in 1..Len(inflight), ok \in BOOLEAN, replyText \in ReplyTexts :
          Commit(resolveSendMessage(State, index, ok, replyText),
                 Event("resolveSendMessage",
                       [sessionId |-> inflight[index].sessionId, ok |-> ok]))

\* consolidated: a run of the chat effect that reaches ai.chats.create and
\* throws; the flag it sets is rendered and the effect then clears the chat
ChatInitFails ==
    /\ variant = "consolidated"
    /\ ~ isApiKeyMissing
    /\ activeSessionId # NoSession
    /\ Commit(chatInitFails(State), Event("chatInitFails", activeSessionId))

\* React renders the queued updates before it handles another event
RenderScheduled ==
    /\ scheduled # <<>>
    /\ Commit(renderScheduled(State), lastEvent)

EditClick ==
    /\ NotEditing
    /\ \E id \in DisplayedIds :
          Commit(handleEditClick(State, id), Event("handleEditClick", id))

\* blur or Enter in the title input, which renders for a displayed session
TitleSave ==
    /\ scheduled = <<>>
    /\ editingSessionId \in DisplayedIds
    /\ \E editingTitle \in TitleInputs :
          Commit(handleTitleSave(State, editingTitle), Event("handleTitleSave", editingSessionId))

TitleCancel ==
    /\ scheduled = <<>>
    /\ editingSessionId \in DisplayedIds
    /\ Commit(handleTitleCancel(State), Event("handleTitleCancel", <<>>))

DeleteSession ==
    /\ NotEditing
    /\ \E id \in DisplayedIds, eager \in BOOLEAN :
          Commit(handleDeleteSession(State, id, eager), Event("handleDeleteSession", id))

ArchiveSession ==
    /\ NotEditing
    /\ \E id \in DisplayedIds :
          Commit(handleArchiveSession(State, id), Event("handleArchiveSession", id))

ToggleShowArchived ==
    /\ NotEditing
    /\ Commit(toggleShowArchived(State), Event("toggleShowArchived", <<>>))

SettingsSend == SendMessageOf({<<"h", "i">>})

SaveSettings ==
    /\ NotEditing
    /\ \E currentSettings \in SettingsInputs :
          Commit(handleSave(State, currentSettings),
                 Event("handleSave", currentSettings))

\* the fields a caller of updateSession passes: a title, the archived flag,
\* a message list
StoreUpdates ==
    {[title |-> <<"T">>], [isArchived |-> TRUE], [isArchived |-> FALSE],
     [messages |-> <<Message("user", <<"h", "i">>)>>]}

\* consolidated: a consumer of the user context calls updateSession; the
\* owner may be one without a collection, the id one that no session has
UpdateSession ==
    /\ variant = "consolidated"
    /\ \E sessionId \in 1..MaxSessionIds, userId \in GuestId..MaxUsers,
          updates \in StoreUpdates :
          Commit([State EXCEPT !.allUserSessions =
                                  updateSession(@, sessionId, userId, updates)],
                 Event("updateSession",
                       [sessionId |-> sessionId, userId |-> userId,
                        updates |-> updates]))

(***************************************************************************)
(* Spec: the session list of one owner and of the guest: create, select,   *)
(* delete, archive.                                                        *)
(* SpecChat: one owner who sends, gets replies and renames.                *)
(* SpecIdentity: the identity store with every username input, profile     *)
(* edits and the user list; sessions are those the effects create.         *)
(***************************************************************************)
Next ==
    \/ SoloLogin
    \/ Logout
    \/ LoginAs
    \/ RenderScheduled
    \/ NewChat
    \/ SelectSession
    \/ DeleteSession
    \/ ArchiveSession
    \/ ToggleShowArchived

Spec == Init /\ [][Next]_vars

\* SpecChat: one owner with two sessions, restored from storage; sends,
\* replies and renames
NextChat ==
    \/ SelectSession
    \/ SendMessage
    \/ ResolveSendMessage
    \/ EditClick
    \/ TitleSave
    \/ TitleCancel

SpecChat == InitRestored /\ [][NextChat]_vars

\* SpecSendFair: the restored owner sends and selects; the awaited call
\* settles, and the continuation then runs
NextSend ==
    \/ SelectSession
    \/ SendMessage
    \/ ResolveSendMessage

SpecSendFair ==
    InitRestored /\ [][NextSend]_vars /\ WF_vars(ResolveSendMessage)

\* SpecStore: the session store of the consolidated build under updateSession
InitStore ==
    \E k \in BOOLEAN : InitOf(Restored("consolidated", k))

NextStore ==
    \/ UpdateSession
    \/ ToggleShowArchived

SpecStore == InitStore /\ [][NextStore]_vars

\* SpecSettings: the restored owner saves settings, opens new chats and
\* sends
NextSettings ==
    \/ SaveSettings
    \/ NewChat
    \/ SettingsSend

SpecSettings == InitRestored /\ [][NextSettings]_vars

\* SpecKey: the restored owner sends and selects, with or without the API
\* key; the creation of the chat instance may fail
NextKey ==
    \/ SelectSession
    \/ SendMessage
    \/ ResolveSendMessage
    \/ ChatInitFails

SpecKey == InitRestored /\ [][NextKey]_vars

\* SpecShare: the restored owner sends, copies the share link of a session,
\* and a link is followed in the same browser
NextShare ==
    \/ ShareSend
    \/ CopyLink
    \/ OpenLink

SpecShare == InitRestored /\ [][NextShare]_vars

\* SpecLoad: the application is opened again, on damaged storage too; the
\* guest logs in, the owner selects and deletes
NextLoad ==
    \/ OpenApp
    \/ LoadLogin
    \/ RenderScheduled
    \/ SelectSession
    \/ DeleteSession

SpecLoad == InitRestoredOne /\ [][NextLoad]_vars

NextIdentity ==
    \/ LoginRegister
    \/ SaveProfile
    \/ ToggleVerified
    \/ Logout
    \/ LoginAs
    \/ ViewChat
    \/ RenderScheduled

SpecIdentity == Init /\ [][NextIdentity]_vars

\* SpecReply: the restored owner sends, then selects, deletes, logs out or
\* logs in again while the request is in flight
NextReply ==
    \/ SendMessage
    \/ ResolveSendMessage
    \/ SelectSession
    \/ DeleteSession
    \/ Logout
    \/ LoginAs
    \/ RenderScheduled

SpecReply == InitRestored /\ [][NextReply]_vars

(***************************************************************************)
(* Properties                                                              *)
(***************************************************************************)
\* the current owner's collection, as the render after the step derives it
OwnerSessions == CurrentSessions(State)

\* the last call was op on the session that was active when it ran
OnActive(event, op) == event.op = op /\ event.arg = event.active

\* the collection of owner o: the map entry (consolidated); the rendered list
\* while o is current, else the list saved under o's key (peruser)
OwnerStoreOf(v, user, map, list, saved, o) ==
    IF v = "consolidated" THEN SessionsOf(map, o)
    ELSE IF user.id = o THEN list
    ELSE SessionsOf(saved, o)

\* C1: every session stored under owner key k has ownerId = k, and no session
\* id is stored under two owner keys, in the session map and in the per-owner
\* storage keys alike
C1_OwnerPartition ==
    /\ \A k \in DOMAIN allUserSessions :
          \A i \in 1..Len(allUserSessions[k]) : allUserSessions[k][i].ownerId = k
    /\ \A k1, k2 \in DOMAIN allUserSessions :
          k1 # k2 => IdsOf(allUserSessions[k1]) \cap IdsOf(allUserSessions[k2]) = {}
    /\ \A k1, k2 \in DOMAIN chatSessions :
          k1 # k2 => IdsOf(chatSessions[k1]) \cap IdsOf(chatSessions[k2]) = {}

\* C2: once a session was renamed by hand, no send on it, nor the reply that
\* completes a send, changes its title
C2_RenameIsFinal ==
    [][\A sid \in renamed :
          (/\ lastEvent'.op \in {"handleSendMessage", "resolveSendMessage"}
           /\ HasId(OwnerSessions, sid)
           /\ HasId(OwnerSessions', sid))
          => FindById(OwnerSessions', sid).title = FindById(OwnerSessions, sid).title
      ]_vars

\* C3: an accepted send of m on a session without a user message sets the
\* title to the first 30 characters of m, followed by the ellipsis exactly
\* when m is longer than 30; on a session with a user message the title stays
C3_TitleFromFirstMessage ==
    [][(/\ lastEvent'.op = "handleSendMessage"
        /\ Len(inflight') > Len(inflight)
        /\ HasId(OwnerSessions, activeSessionId))
       => /\ HasId(OwnerSessions', activeSessionId)
          /\ LET before == FindById(OwnerSessions, activeSessionId)
                 after == FindById(OwnerSessions', activeSessionId)
                 m == after.messages[Len(after.messages)].text
             IN  /\ after.messages = Append(before.messages, Message("user", m))
                 /\ after.title =
                       IF UserMessageCount(before.messages) = 0
                       THEN IF Len(m) > 30
                            THEN SubSeq(m, 1, 30) \o <<".", ".", ".">>
                            ELSE m
                       ELSE before.title
      ]_vars

\* a session whose only user message has 31 characters carries the first 30
\* and the ellipsis as its title, right after the send
C3_Witness ==
    /\ lastEvent.op = "handleSendMessage"
    /\ \E i \in 1..Len(OwnerSessions) :
          /\ OwnerSessions[i].id = activeSessionId
          /\ UserMessageCount(OwnerSessions[i].messages) = 1
          /\ OwnerSessions[i].messages[Len(OwnerSessions[i].messages)]
                = Message("user", Rep("x", 31))
          /\ OwnerSessions[i].title = Rep("x", 30) \o <<".", ".", ".">>

\* C4: deleting the active session selects the first remaining non-archived
\* session of the current owner when one exists, and otherwise a session
\* created by the deletion
C4_DeleteSelectsNonArchived ==
    [][(/\ OnActive(lastEvent', "handleDeleteSession")
        /\ HasId(OwnerSessions, activeSessionId))
       => LET remaining == SelectSeq(OwnerSessions,
                 LAMBDA x : x.id # activeSessionId /\ ~ x.isArchived)
          IN  IF Len(remaining) > 0
              THEN activeSessionId' = remaining[1].id
              ELSE /\ activeSessionId' \notin IdsOf(OwnerSessions)
                   /\ HasId(OwnerSessions', activeSessionId')
                   /\ ~ FindById(OwnerSessions', activeSessionId').isArchived
      ]_vars

\* C5: archiving the active session while archived sessions are hidden selects
\* the first other non-archived session of the current owner when one exists,
\* and otherwise a non-archived session created by the archiving
C5_ArchiveSelectsNonArchived ==
    [][(/\ OnActive(lastEvent', "handleArchiveSession")
        /\ ~ showArchivedSessions
        /\ HasId(OwnerSessions, activeSessionId)
        /\ ~ FindById(OwnerSessions, activeSessionId).isArchived)
       => LET remaining == SelectSeq(OwnerSessions,
                 LAMBDA x : x.id # activeSessionId /\ ~ x.isArchived)
          IN  IF Len(remaining) > 0
              THEN activeSessionId' = remaining[1].id
              ELSE /\ activeSessionId' \notin IdsOf(OwnerSessions)
                   /\ HasId(OwnerSessions', activeSessionId')
                   /\ ~ FindById(OwnerSessions', activeSessionId').isArchived
      ]_vars

\* the session that was active has just been archived with archived sessions
\* hidden, and another, non-archived session is active
C5_Witness ==
    /\ OnActive(lastEvent, "handleArchiveSession")
    /\ ~ showArchivedSessions
    /\ HasId(OwnerSessions, lastEvent.arg)
    /\ FindById(OwnerSessions, lastEvent.arg).isArchived
    /\ activeSessionId # lastEvent.arg
    /\ HasId(OwnerSessions, activeSessionId)
    /\ ~ FindById(OwnerSessions, activeSessionId).isArchived

\* C6: in the consolidated store, after a delete or an archive of the active
\* session activeSessionId is the id of a session of the current owner, and
\* after a delete it is not the id of the deleted session
C6_ActiveSessionExists ==
    [][(/\ variant = "consolidated"
        /\ \/ OnActive(lastEvent', "handleDeleteSession")
           \/ OnActive(lastEvent', "handleArchiveSession")
        /\ HasId(OwnerSessions, activeSessionId))
       => /\ HasId(OwnerSessions', activeSessionId')
          /\ lastEvent'.op = "handleDeleteSession"
                => activeSessionId' # activeSessionId
      ]_vars

\* the active session has just been deleted from a collection that keeps
\* other sessions, and one of them is active
C6_Witness ==
    /\ variant = "consolidated"
    /\ OnActive(lastEvent, "handleDeleteSession")
    /\ ~ HasId(OwnerSessions, lastEvent.arg)
    /\ Len(OwnerSessions) > 1
    /\ HasId(OwnerSessions, activeSessionId)

\* C7: an archive or unarchive keeps every session id of the owner's
\* collection
C7_ArchiveKeepsSessions ==
    [][lastEvent'.op = "handleArchiveSession"
          => IdsOf(OwnerSessions) \subseteq IdsOf(OwnerSessions')]_vars

\* C8: no two profiles of the roster have usernames equal ignoring case
C8_UniqueUsernames ==
    \A i, j \in 1..Len(registeredUsers) :
        i # j => toLowerCase(registeredUsers[i].username)
                    # toLowerCase(registeredUsers[j].username)

\* C9: a login / register with a username that is not blank makes an existing
\* profile of that name (ignoring case) current as stored and keeps the
\* roster, or else appends exactly one profile with an unused id and makes it
\* current
C9_RegisterOrLogin ==
    [][(/\ lastEvent'.op = "handleLoginRegister"
        /\ trim(lastEvent'.arg) # <<>>)
       => LET name == trim(lastEvent'.arg)
              matches == {i \in 1..Len(registeredUsers) :
                            toLowerCase(registeredUsers[i].username)
                               = toLowerCase(name)}
          IN  IF matches # {}
              THEN /\ \E i \in matches : currentUser' = registeredUsers[i]
                   /\ registeredUsers' = registeredUsers
              ELSE /\ registeredUsers' = Append(registeredUsers, currentUser')
                   /\ currentUser'.username = name
                   /\ currentUser'.id # GuestId
                   /\ \A i \in 1..Len(registeredUsers) :
                         registeredUsers[i].id # currentUser'.id
      ]_vars

\* "Ada" was entered while "ada" is registered: the stored profile is current
C9_Witness ==
    /\ lastEvent.op = "handleLoginRegister"
    /\ lastEvent.arg = <<"A", "d", "a">>
    /\ currentUser.username = <<"a", "d", "a">>
    /\ \E i \in 1..Len(registeredUsers) : registeredUsers[i] = currentUser

\* C10: at most one request is in flight, and a send while one is in flight
\* issues no request and stores no message
C10_OneInFlight ==
    [][/\ Len(inflight') <= 1
       /\ (Len(inflight) > 0 /\ lastEvent'.op = "handleSendMessage")
             => /\ inflight' = inflight
                /\ allUserSessions' = allUserSessions
                /\ sessions' = sessions
                /\ chatSessions' = chatSessions
      ]_vars

\* a send was attempted while the request of an earlier send is in flight
C10_Witness ==
    /\ lastEvent.op = "handleSendMessage"
    /\ lastEvent.loading
    /\ Len(inflight) = 1
    /\ isLoading

\* C11: the reply or failure of a request issued for session S of owner O is
\* appended to the messages of S in O's collection when S is still there,
\* whoever is current and whichever session is active
C11_ReplyToOrigin ==
    [][(lastEvent'.op = "resolveSendMessage" /\ Len(inflight) = 1)
       => LET S == inflight[1].sessionId
              O == inflight[1].userId
              before == OwnerStoreOf(variant, currentUser, allUserSessions,
                                     sessions, chatSessions, O)
              after == OwnerStoreOf(variant', currentUser', allUserSessions',
                                    sessions', chatSessions', O)
          IN  HasId(before, S)
                 => /\ HasId(after, S)
                    /\ \E ok \in BOOLEAN, replyText \in ReplyTexts :
                          FindById(after, S).messages =
                             Append(FindById(before, S).messages,
                                    ModelMessage(ok, replyText))
      ]_vars

C13_GuestOwnsNothing ==
    /\ SessionsOf(allUserSessions, GuestId) = <<>>
    /\ \A k \in DOMAIN allUserSessions :
          \A i \in 1..Len(allUserSessions[k]) :
             allUserSessions[k][i].ownerId # GuestId
    /\ SessionsOf(chatSessions, GuestId) = <<>>

\* the guest, after an owner logged out, pressed "New Chat"
C13_Witness ==
    /\ variant = "consolidated"
    /\ currentUser.id = GuestId
    /\ lastEvent.op = "handleNewChat"
    /\ Len(registeredUsers) > 0
    /\ \E k \in DOMAIN allUserSessions : Len(allUserSessions[k]) > 0

\* C18: while the API credential is missing or the missing-credential flag is
\* set, a send attempt issues no request and leaves every stored session as
\* it was; the flag, once set, stays set.
C18_NoSendWithoutCredential ==
    [][/\ isApiKeyMissing => isApiKeyMissing'
       /\ ((isApiKeyMissing \/ ~ apiKey) /\ lastEvent'.op = "handleSendMessage")
             => /\ inflight' = inflight
                /\ allUserSessions' = allUserSessions
                /\ sessions' = sessions
                /\ chatSessions' = chatSessions
                /\ isLoading' = isLoading
      ]_vars

\* a send was attempted on an existing session after the creation of the chat
\* instance had failed with the key present
C18_Witness ==
    /\ lastEvent.op = "handleSendMessage"
    /\ isApiKeyMissing
    /\ apiKey
    /\ HasId(OwnerSessions, activeSessionId)
    /\ currentUser.id # GuestId

\* C19: the request issued for a user turn carries the session's full prior
\* message history, in order and with roles, followed by the new user
\* message; earlier turns are not dropped when the chat instance was created
\* again after a store update.
C19_RequestCarriesHistory ==
    [][(Len(inflight') = Len(inflight) + 1
            /\ HasId(OwnerSessions, inflight'[Len(inflight')].sessionId))
          => LET request == inflight'[Len(inflight')]
                 prior == FindById(OwnerSessions, request.sessionId).messages
             IN  /\ Len(request.contents) = Len(prior) + 1
                 /\ SubSeq(request.contents, 1, Len(prior)) = prior
                 /\ request.contents[Len(prior) + 1].role = "user"
      ]_vars

IsPrefix(a, b) == Len(a) <= Len(b) /\ SubSeq(b, 1, Len(a)) = a

\* every session of the list before that is still in the list after keeps its
\* messages as a prefix
GrowsByAppending(before, after) ==
    \A i \in 1..Len(before) :
        HasId(after, before[i].id)
            => IsPrefix(before[i].messages, FindById(after, before[i].id).messages)

\* C20: in every step, for each session that exists before and after it in
\* a store, the previous message list is a prefix of the new one; this
\* includes the late reply that the consolidated build writes from the
\* snapshot taken at send time.
C20_MessagesAppendOnly ==
    [][/\ \A k \in DOMAIN allUserSessions \cap DOMAIN allUserSessions' :
             GrowsByAppending(allUserSessions[k], allUserSessions'[k])
       /\ GrowsByAppending(sessions, sessions')
       /\ \A k \in DOMAIN chatSessions \cap DOMAIN chatSessions' :
             GrowsByAppending(chatSessions[k], chatSessions'[k])
      ]_vars

\* a reply was written from the snapshot to a session the owner had left in
\* the meantime, and the session holds the user message and the reply
C20_Witness ==
    /\ variant = "consolidated"
    /\ lastEvent.op = "resolveSendMessage"
    /\ lastEvent.arg.sessionId # lastEvent.active
    /\ \E k \in DOMAIN allUserSessions :
          /\ HasId(allUserSessions[k], lastEvent.arg.sessionId)
          /\ Len(FindById(allUserSessions[k], lastEvent.arg.sessionId).messages) >= 2

\* C14: the shared view is entered only when the view parameter decodes to
\* an object with a title and a messages array; when the base64 or JSON
\* decoding fails or the value has another shape, the application starts in
\* its normal mode and no exception escapes.
C14_ViewOnlyWhenWellFormed ==
    /\ publicSessionData.kind \in {"null", "session"}
    /\ publicSessionData.kind = "session"
          => decodeView(State) = [ok |-> TRUE, value |-> publicSessionData]
    /\ lastEvent.op = "open" => ~ crashed

\* C15: when the link that the share dialog produced for a title and a
\* message list is followed, the shared view shows exactly that title and
\* those messages.
C15_LinkRoundTrip ==
    (/\ lastEvent.op = "open"
     /\ lastEvent.arg.param # <<>>
     /\ lastEvent.arg.param = clipboard.param)
        => publicSessionData = clipboard.source

\* C16: opening the shared view leaves the identity and the session stores
\* as they were persisted: the registered users, the last active identity
\* and every owner's saved sessions.
C16_SharedViewTouchesNothing ==
    [][(lastEvent'.op = "open" /\ publicSessionData'.kind = "session")
          => /\ registeredUsers' = registeredUsers
             /\ currentUser' = currentUser
             /\ allUserSessions' = allUserSessions
             /\ chatSessions' = chatSessions
      ]_vars

\* C17: a stored value that is missing, not JSON or of another shape is
\* treated as absent on load: the state it feeds starts from its default,
\* nothing stored before survives under it, no exception escapes, and the
\* login that follows does not fail.
C17_DamagedStorageIsAbsent ==
    [][/\ (lastEvent'.op = "open"
              /\ lastEvent'.arg.damage \in {"usersMissing", "usersInvalid", "usersWrong"})
          => /\ registeredUsers' = <<>>
             /\ currentUser' = DEFAULT_GUEST_USER_PROFILE
             /\ malformed' = {}
             /\ ~ crashed'
       /\ (lastEvent'.op = "open"
              /\ lastEvent'.arg.damage \in {"sessionsMissing", "sessionsInvalid", "sessionsWrong"})
          => /\ malformed' = malformed
             /\ ~ crashed'
             /\ \A k \in DOMAIN allUserSessions' : \A j \in DOMAIN allUserSessions :
                   IdsOf(allUserSessions'[k]) \cap IdsOf(allUserSessions[j]) = {}
             /\ IdsOf(SessionsOf(chatSessions', currentUser.id))
                   \cap IdsOf(SessionsOf(chatSessions, currentUser.id)) = {}
       /\ lastEvent'.op = "handleLoginRegister" => ~ crashed'
      ]_vars

\* C21: the displayed list holds exactly the owner's sessions that are not
\* archived (all of them when archived sessions are shown) plus the active
\* session when the owner has it, and holds no session twice.
C21_DisplayedList ==
    LET displayed == displayedSessions(State)
    IN  /\ \A i \in 1..Len(displayed) :
              \E j \in 1..Len(OwnerSessions) : OwnerSessions[j] = displayed[i]
        /\ \A j \in 1..Len(OwnerSessions) :
              (\/ showArchivedSessions
               \/ ~ OwnerSessions[j].isArchived
               \/ OwnerSessions[j].id = activeSessionId)
                  <=> \E i \in 1..Len(displayed) : displayed[i] = OwnerSessions[j]
        /\ \A i, k \in 1..Len(displayed) : i # k => displayed[i].id # displayed[k].id

\* the active session is archived, archived sessions are hidden, and another
\* session of the owner is listed before it
C21_Witness ==
    /\ ~ showArchivedSessions
    /\ HasId(OwnerSessions, activeSessionId)
    /\ FindById(OwnerSessions, activeSessionId).isArchived
    /\ Len(displayedSessions(State)) >= 2
    /\ displayedSessions(State)[Len(displayedSessions(State))].id = activeSessionId

\* the profile that the login of the step's event was given: the one the
\* login dialog found or built, the one of the "Login as" row, or the owner
\* of the chat of the "View Chat" row
GivenProfile(event, users, map, after) ==
    IF event.op = "handleLoginAs" THEN FindById(users, event.arg)
    ELSE IF event.op = "handleViewChat"
    THEN LET k == CHOOSE key \in DOMAIN map : HasId(map[key], event.arg)
         IN  FindById(users, FindById(map[k], event.arg).ownerId)
    ELSE IF KnownUsername(users, trim(event.arg))
    THEN FindByUsername(users, trim(event.arg))
    ELSE [id |-> nextUserId, username |-> trim(event.arg),
          isVerified |-> after.isVerified]

IsLogin(event) ==
    \/ event.op \in {"handleLoginAs", "handleViewChat"}
    \/ event.op = "handleLoginRegister" /\ trim(event.arg) # <<>>

EditedProfile(event, user) ==
    IF event.op = "handleSaveProfile"
    THEN [user EXCEPT !.username = ProfileUsername(event.arg)]
    ELSE [user EXCEPT !.isVerified = ~ @]

\* C23: updateUserProfile replaces the roster entry that has the profile's
\* id, in place, or appends the profile when no entry has it, and leaves the
\* other entries and their order alone; the current identity becomes the
\* profile when the ids are equal.
C23_UpdateProfileUpserts ==
    [][/\ lastEvent'.op \in {"handleSaveProfile", "handleToggleVerified"}
          => LET profile == EditedProfile(lastEvent', currentUser)
             IN  /\ IF HasId(registeredUsers, profile.id)
                    THEN /\ Len(registeredUsers') = Len(registeredUsers)
                         /\ \A i \in 1..Len(registeredUsers) :
                               registeredUsers'[i] =
                                   IF registeredUsers[i].id = profile.id
                                   THEN profile ELSE registeredUsers[i]
                    ELSE registeredUsers' = Append(registeredUsers, profile)
                 /\ currentUser' = profile
       /\ (/\ lastEvent'.op = "handleLoginRegister"
           /\ trim(lastEvent'.arg) # <<>>
           /\ ~ KnownUsername(registeredUsers, trim(lastEvent'.arg)))
          => /\ Len(registeredUsers') = Len(registeredUsers) + 1
             /\ SubSeq(registeredUsers', 1, Len(registeredUsers)) = registeredUsers
             /\ registeredUsers'[Len(registeredUsers')].id = nextUserId
      ]_vars

\* the first of two registered profiles was renamed in the profile dialog
C23_Witness ==
    /\ lastEvent.op = "handleSaveProfile"
    /\ Len(registeredUsers) = 2
    /\ currentUser = registeredUsers[1]
    /\ currentUser.username = ProfileUsername(lastEvent.arg)
    /\ currentUser.username # registeredUsers[2].username

\* C24: updateSession merges the fields into the one session of the owner
\* that has the id and changes nothing else; when the owner has no session
\* with the id, or no collection at all, the store is left as it was.
C24_UpdateSessionMerges ==
    [][lastEvent'.op = "updateSession"
       => LET arg == lastEvent'.arg
              before == SessionsOf(allUserSessions, arg.userId)
          IN  IF HasId(before, arg.sessionId)
              THEN /\ DOMAIN allUserSessions' = DOMAIN allUserSessions
                   /\ \A k \in (DOMAIN allUserSessions) \ {arg.userId} :
                         allUserSessions'[k] = allUserSessions[k]
                   /\ Len(allUserSessions'[arg.userId]) = Len(before)
                   /\ \A i \in 1..Len(before) :
                         LET old == before[i]
                             new == allUserSessions'[arg.userId][i]
                         IN  IF old.id # arg.sessionId THEN new = old
                             ELSE /\ DOMAIN new = DOMAIN old
                                  /\ \A f \in DOMAIN old :
                                        new[f] = IF f \in DOMAIN arg.updates
                                                 THEN arg.updates[f] ELSE old[f]
              ELSE allUserSessions' = allUserSessions
      ]_vars

\* C25: the system instruction the requests are sent with is the persona
\* preamble of the session's intelligent mode, then the user's system
\* instruction, then the code-style directive when and only when the
\* code-style flag is set.
C25_SystemInstruction ==
    [][(/\ lastEvent'.op = "handleSendMessage"
        /\ Len(inflight') = Len(inflight) + 1)
       => LET settings == FindById(OwnerSessions, activeSessionId).settings
          IN  systemInstruction =
                  (IF settings.intelligentMode = "ahm ai 5"
                   THEN PERSONA_5 ELSE PERSONA_2_5)
                     \o settings.systemInstruction
                     \o (IF settings.codeIsNonbro THEN CODE_STYLE ELSE <<>>)
      ]_vars

\* C26: once the effects of a login, a logout or an identity switch have
\* run, a current identity that is not the guest has an active session that
\* is one of its own sessions.
C26_ActiveSessionOfOwner ==
    (scheduled = <<>> /\ currentUser.id # GuestId)
       => HasId(OwnerSessions, activeSessionId)

\* C27: unarchiving the active session while archived sessions are hidden
\* leaves activeSessionId as it is and creates no session.
C27_UnarchiveKeepsActive ==
    [][(/\ OnActive(lastEvent', "handleArchiveSession")
        /\ ~ showArchivedSessions
        /\ HasId(OwnerSessions, activeSessionId)
        /\ FindById(OwnerSessions, activeSessionId).isArchived)
       => /\ activeSessionId' = activeSessionId
          /\ IdsOf(OwnerSessions') = IdsOf(OwnerSessions)
      ]_vars

\* the ids of the sessions held anywhere: every owner's list of the
\* consolidated store, the in-memory list and every saved list of peruser
AllSessionIds(map, list, saved) ==
    IdsOf(list)
        \cup UNION {IdsOf(map[k]) : k \in DOMAIN map}
        \cup UNION {IdsOf(saved[k]) : k \in DOMAIN saved}

\* C28: when the reply or the failure of a request arrives after its session
\* was deleted, no session with that id is in any collection afterwards and
\* the sessions that exist are as they were.
C28_DeletedStaysDeleted ==
    [][(/\ lastEvent'.op = "resolveSendMessage"
        /\ lastEvent'.arg.sessionId
              \notin AllSessionIds(allUserSessions, sessions, chatSessions))
       => /\ lastEvent'.arg.sessionId
                \notin AllSessionIds(allUserSessions', sessions', chatSessions')
          /\ allUserSessions' = allUserSessions
          /\ sessions' = sessions
          /\ chatSessions' = chatSessions
      ]_vars

\* a request has settled whose session is in no collection, while other
\* sessions exist
C28_Witness ==
    /\ lastEvent.op = "resolveSendMessage"
    /\ lastEvent.arg.sessionId
          \notin AllSessionIds(allUserSessions, sessions, chatSessions)
    /\ AllSessionIds(allUserSessions, sessions, chatSessions) # {}

\* C29: in every state the current identity is the guest sentinel, or it is
\* equal field for field to the roster entry that carries its id: a
\* non-guest current identity is never absent from the roster and never
\* differs from its entry.
C29_CurrentUserInRoster ==
    \/ currentUser = DEFAULT_GUEST_USER_PROFILE
    \/ /\ HasId(registeredUsers, currentUser.id)
       /\ FindById(registeredUsers, currentUser.id) = currentUser

C29_Witness ==
    /\ lastEvent.op = "handleToggleVerified"
    /\ currentUser.id # GuestId
    /\ currentUser.isVerified
    /\ Len(registeredUsers) = 2
    /\ FindById(registeredUsers, currentUser.id) = currentUser

(***************************************************************************)
(* Session ids.  crypto.randomUUID() gives a new value at every call.       *)
(* Date.now() gives the millisecond of the call: two calls within one       *)
(* millisecond give the same value.                                         *)
(***************************************************************************)
\* handleNewChat() when Date.now() returns now; the clock is not advanced by
\* the call
handleNewChatAt(s, now) ==
    [handleNewChat([s EXCEPT !.idClock = now], FALSE) EXCEPT
        !.idClock = s.idClock]

\* peruser, "New Chat" again in the millisecond of the last "New Chat"
NewChatSameTick ==
    /\ NotEditing
    /\ variant = "peruser"
    /\ lastEvent.op = "handleNewChat"
    /\ Len(sessions) < MaxSessionIds
    /\ Commit(handleNewChatAt(State, idClock - 1), Event("handleNewChat", <<>>))

\* SpecIds: the restored owner creates, deletes and archives sessions
NextIds ==
    \/ NewChat
    \/ NewChatSameTick
    \/ DeleteSession
    \/ ArchiveSession
    \/ ToggleShowArchived

SpecIds == InitRestored /\ [][NextIds]_vars

\* no two places of the list hold the same id
DistinctIds(list) ==
    \A i, j \in 1..Len(list) : list[i].id = list[j].id => i = j

\* C30: all session ids of the store are pairwise distinct: within every
\* owner's list and across the owners of the consolidated store, within the
\* in-memory list and within every saved list of peruser.
C30_DistinctSessionIds ==
    /\ \A k \in DOMAIN allUserSessions : DistinctIds(allUserSessions[k])
    /\ \A k, l \in DOMAIN allUserSessions :
          k # l => IdsOf(allUserSessions[k]) \cap IdsOf(allUserSessions[l]) = {}
    /\ DistinctIds(sessions)
    /\ \A k \in DOMAIN chatSessions : DistinctIds(chatSessions[k])

====
